---- MODULE Spec2Model ----
(***************************************************************************)
(* The grass cut / regrowth model of the repository:                       *)
(*   - the cut ledger of class Grass (src/src/modified-grass.js):          *)
(*     cutGrass, updateCutAreasUniform, regrowGrass, update and            *)
(*     checkAndCutGrass, with the Float32Array transport buffer;           *)
(*   - getGrowthStage of the vertex shaders: the continuous one            *)
(*     (src/src/shaders.js) and the staged one (src/unnamed/part_005);     *)
(*   - the mowing loop of src/src/index.js (cutGrassUnderObject and the    *)
(*     animation callback) and the blade loop of its polygon geometry.     *)
(*   - the key handlers of src/src/index.js (movement keys, the mower      *)
(*     toggle and its indicator) and createIrregularGarden, which builds   *)
(*     the garden with the class constructor of GrassGeometry;             *)
(*   - the corridor variant of src/unnamed/part_006: the window of grass   *)
(*     tiles around the object and its jump, in tenths of a world unit.    *)
(*                                                                         *)
(* Lengths are world units.  Times are milliseconds.  Date.now() is the    *)
(* variable now, counted from a clock base B that is a multiple of         *)
(* 2 * 131072 ms with 2^40 <= B < 2^41 (every wall-clock date from 2004    *)
(* to 2039): a float32 holds such instants in steps of 131072 ms.          *)
(* Growth values are exact fractions <<n, d>> with d > 0.                  *)
(***************************************************************************)
EXTENDS Integers, Sequences, FiniteSets, TLC

VARIABLES
    cutAreas,        \* this.cutAreas: sequence of {position, radius, cutTime}
    uCutAreas,       \* uniforms.uCutAreas.value: Float32Array(MAX_CUT_AREAS * 8)
    uCutAreasCount,  \* uniforms.uCutAreasCount.value
    uCurrentTime,    \* uniforms.uCurrentTime.value
    now,             \* what Date.now() returns
    op,              \* the handler that ran last
    req,             \* arguments of the last cut request, or NoReq
    ret,             \* value returned by the last checkAndCutGrass, or NoRet
    cuts,            \* number of events pushed so far
    pruned,          \* whether regrowGrass has removed an event so far
    position,        \* the vertex the shader ran for last
    vGrowthStage,    \* its varying vGrowthStage, per shader variant
    lastCutTime,     \* index.js: let lastCutTime
    frames,          \* animation loop callbacks run so far
    ctorCount,       \* polygon field generation: the constructor's argument count
    draws,           \* its loop variable i, the candidate points drawn so far
    actualCount,     \* its actualCount, the blades accepted so far
    bladePositions,  \* a geometry under construction: this.bladePositions
    positions,       \* its array positions, one entry per vertex
    indices,         \* its array indices
    keys,            \* the key names whose entry of const keys is true
    mowerDown,       \* index.js: let mowerDown
    mowerIndicator,  \* mowerIndicator.innerText
    collisionBox,    \* collisionBox.position, <<x, z>>
    controllableObject, \* corridor variant: controllableObject.position
    velocityY,       \* its let velocityY
    isJumping,       \* its let isJumping
    grassTiles,      \* the keys of its Map grassTiles
    currentTileZ,    \* its let currentTileZ
    sceneGrass,      \* the tile index of every Grass object in its scene
    landed           \* whether a jump has ended on the ground so far

\* the variables of index.js around the Grass object and its shader
\* the three arrays a GrassGeometry constructor fills
geometry == <<bladePositions, positions, indices>>

\* keyboard state, mower switch and mower position of index.js
mower == <<keys, mowerDown, mowerIndicator, collisionBox>>

\* the player and the tiles of the corridor variant (src/unnamed/part_006)
corridor == <<controllableObject, velocityY, isJumping, grassTiles, currentTileZ,
              sceneGrass, landed>>

outer == <<lastCutTime, frames, ctorCount, draws, actualCount, geometry, mower,
           corridor>>

vars == <<cutAreas, uCutAreas, uCutAreasCount, uCurrentTime, now, op, req, ret,
          cuts, pruned, position, vGrowthStage, lastCutTime, frames, ctorCount,
          draws, actualCount, bladePositions, positions, indices, keys, mowerDown,
          mowerIndicator, collisionBox, controllableObject, velocityY, isJumping,
          grassTiles, currentTileZ, sceneGrass, landed>>

(***************************************************************************)
(* Program constants                                                       *)
(***************************************************************************)
CUT_RADIUS == 1
REGROWTH_TIME == 10000
GROWTH_STAGES == 5
MAX_CUT_AREAS == 20
CUT_AREA_STRIDE == 8
GARDEN_WIDTH == 100
GARDEN_LENGTH == 120
F32_SIGNIFICAND == 16777216
F32_TIME_ULP == 131072
CUT_INTERVAL == 100
SHADER_LOOP_CONTINUOUS == 200
SHADER_LOOP_STAGED == 20
SHADER_ARRAY_CONTINUOUS == 200
SHADER_ARRAY_STAGED == 160
BLADE_VERTEX_COUNT == 5
\* corridor variant; its lengths and speeds are counted in tenths of a world unit
TILE_LENGTH == 780
ACTIVE_TILES_AHEAD == 3
ACTIVE_TILES_BEHIND == 1
moveSpeed == 1
jumpStrength == 4
gravity == 2
GROUND_Y == 5
START_Z == -500

(***************************************************************************)
(* Bounds of the model                                                     *)
(***************************************************************************)
MaxCuts == 2
MaxTicks == 2
MaxSweepCuts == 25
MaxSweepWaits == 1
MaxEvalSteps == 24
MaxFrames == 3
MaxBlades == 8
MaxFieldBlades == 3
MaxWalk == 300
MaxJumpWalk == 3

TickStep == REGROWTH_TIME \div 2
InitNow == (F32_TIME_ULP \div 2) - TickStep
SweepStride == CUT_INTERVAL + 1
EvalTick == REGROWTH_TIME \div (4 * GROWTH_STAGES)

\* uCurrentTime: { value: 0 } is the instant B ms before the clock base; every
\* instant more than REGROWTH_TIME before the first cut behaves alike
UniformTimeInit == -F32_SIGNIFICAND

\* let lastCutTime = 0 is that same instant
LastCutTimeInit == -F32_SIGNIFICAND

NoReq == [x |-> 0, z |-> 0, radius |-> 0, none |-> TRUE]
NoRet == "none"
Modes == {"continuous", "staged"}
One == <<1, 1>>
Zero == <<0, 1>>

(***************************************************************************)
(* Float32Array stores and float uniforms                                  *)
(***************************************************************************)
Abs(v) == IF v < 0 THEN -v ELSE v

\* v rounded to the nearest multiple of ulp, ties to the even multiple
RoundToMultiple(v, ulp) ==
    LET q == v \div ulp
        r == v % ulp
    IN  IF 2 * r < ulp THEN q * ulp
        ELSE IF 2 * r > ulp THEN (q + 1) * ulp
        ELSE IF q % 2 = 0 THEN q * ulp ELSE (q + 1) * ulp

RECURSIVE UlpOf(_, _)
UlpOf(m, ulp) == IF m < F32_SIGNIFICAND * ulp THEN ulp ELSE UlpOf(m, 2 * ulp)

\* Math.fround of an integer: 24 significant bits
Float32(v) ==
    IF Abs(v) < F32_SIGNIFICAND THEN v ELSE RoundToMultiple(v, UlpOf(Abs(v), 1))

\* Math.fround of the instant B + t, as an offset from B
Float32Time(t) == RoundToMultiple(t, F32_TIME_ULP)

(***************************************************************************)
(* The ledger (class Grass)                                                *)
(***************************************************************************)
width == GARDEN_WIDTH
length == GARDEN_LENGTH
BufferLen == MAX_CUT_AREAS * CUT_AREA_STRIDE

CutEvent(p, radius, t) ==
    [position |-> [x |-> p[1], y |-> 0, z |-> p[2]], radius |-> radius, cutTime |-> t]

\* mutants of cutGrassLedger
cutGrassLedgerGt(areas, p, radius, currentTime) ==
    Append(IF Len(areas) > MAX_CUT_AREAS THEN Tail(areas) ELSE areas,
           CutEvent(p, radius, currentTime))

cutGrassLedgerPop(areas, p, radius, currentTime) ==
    Append(IF Len(areas) >= MAX_CUT_AREAS THEN SubSeq(areas, 1, Len(areas) - 1) ELSE areas,
           CutEvent(p, radius, currentTime))

cutGrassLedgerEarly(areas, p, radius, currentTime) ==
    Append(IF Len(areas) >= MAX_CUT_AREAS - 1 THEN Tail(areas) ELSE areas,
           CutEvent(p, radius, currentTime))

cutGrassLedgerFront(areas, p, radius, currentTime) ==
    <<CutEvent(p, radius, currentTime)>>
        \o (IF Len(areas) >= MAX_CUT_AREAS THEN Tail(areas) ELSE areas)

\* cutGrass, lines 197-209: shift() when full, then push
cutGrassLedger(areas, p, radius, currentTime) ==
    Append(IF Len(areas) >= MAX_CUT_AREAS THEN Tail(areas) ELSE areas,
           CutEvent(p, radius, currentTime))

\* the value written to slot s (0..4) of a record
CutAreaSlot(area, s) ==
    CASE s = 0 -> Float32(area.position.x)
      [] s = 1 -> Float32(area.position.y)
      [] s = 2 -> Float32(area.position.z)
      [] s = 3 -> Float32(area.radius)
      [] s = 4 -> Float32Time(area.cutTime)

\* mutant of updateCutAreasUniform: the buffer is not rewritten
updateCutAreasUniformStale(areas, cutAreasData) == cutAreasData

\* updateCutAreasUniform, lines 231-239: the buffer after the fill loop
updateCutAreasUniform(areas, cutAreasData) ==
    [k \in 0..(BufferLen - 1) |->
        IF k \div CUT_AREA_STRIDE < Len(areas) /\ k % CUT_AREA_STRIDE <= 4
        THEN CutAreaSlot(areas[(k \div CUT_AREA_STRIDE) + 1], k % CUT_AREA_STRIDE)
        ELSE cutAreasData[k]]

\* mutants of regrowFilter
regrowFilterLe(areas, currentTime) ==
    SelectSeq(areas, LAMBDA area : currentTime - area.cutTime <= REGROWTH_TIME)

regrowFilterInverted(areas, currentTime) ==
    SelectSeq(areas, LAMBDA area : currentTime - area.cutTime >= REGROWTH_TIME)

\* regrowGrass, lines 254-257: the filter
regrowFilter(areas, currentTime) ==
    SelectSeq(areas, LAMBDA area : currentTime - area.cutTime < REGROWTH_TIME)

\* mutant of isWithinField
isWithinFieldStrict(p) ==
    /\ p[1] >= -(width \div 2)
    /\ p[1] < width \div 2
    /\ p[2] >= -(length \div 2)
    /\ p[2] <= length \div 2

\* checkAndCutGrass, lines 281-290: the bounds test
isWithinField(p) ==
    /\ p[1] >= -(width \div 2)
    /\ p[1] <= width \div 2
    /\ p[2] >= -(length \div 2)
    /\ p[2] <= length \div 2

Request(p, radius) == [x |-> p[1], z |-> p[2], radius |-> radius, none |-> FALSE]

\* cutGrass(position, radius) called when Date.now() = t
CutGrassAt(p, radius, t) ==
    /\ cutAreas' = cutGrassLedger(cutAreas, p, radius, t)
    /\ uCutAreas' = updateCutAreasUniform(cutAreas', uCutAreas)
    /\ uCutAreasCount' = Len(cutAreas')
    /\ cuts' = cuts + 1
    /\ now' = t
    /\ req' = Request(p, radius)
    /\ UNCHANGED <<uCurrentTime, pruned, position, vGrowthStage>>

CutGrass(p, radius, t) ==
    /\ CutGrassAt(p, radius, t)
    /\ op' = "cutGrass"
    /\ ret' = NoRet

\* checkAndCutGrass(position, radius) called when Date.now() = t
CheckAndCutGrass(p, radius, t) ==
    /\ op' = "checkAndCutGrass"
    /\ IF isWithinField(p)
       THEN /\ CutGrassAt(p, radius, t)
            /\ ret' = TRUE
       ELSE /\ ret' = FALSE
            /\ now' = t
            /\ req' = Request(p, radius)
            /\ UNCHANGED <<cutAreas, uCutAreas, uCutAreasCount, uCurrentTime,
                           cuts, pruned, position, vGrowthStage>>

\* the ledger part of regrowGrass()
RegrowGrassAt(t) ==
    /\ cutAreas' = regrowFilter(cutAreas, t)
    /\ uCutAreas' = updateCutAreasUniform(cutAreas', uCutAreas)
    /\ uCutAreasCount' = Len(cutAreas')
    /\ pruned' = (pruned \/ Len(cutAreas') < Len(cutAreas))
    /\ now' = t
    /\ req' = NoReq
    /\ ret' = NoRet
    /\ UNCHANGED <<cuts, position, vGrowthStage>>

RegrowGrass ==
    /\ RegrowGrassAt(now)
    /\ op' = "regrowGrass"
    /\ UNCHANGED uCurrentTime

\* update(time, objectPosition): regrowGrass, then the time uniforms
Update ==
    /\ RegrowGrassAt(now)
    /\ op' = "update"
    /\ uCurrentTime' = now

\* d ms pass between two calls
TickBy(d) ==
    /\ now' = now + d
    /\ op' = "tick"
    /\ req' = NoReq
    /\ ret' = NoRet
    /\ UNCHANGED <<cutAreas, uCutAreas, uCutAreasCount, uCurrentTime, cuts, pruned,
                   position, vGrowthStage>>

Tick ==
    /\ now + TickStep <= InitNow + MaxTicks * TickStep
    /\ TickBy(TickStep)

(***************************************************************************)
(* getGrowthStage of the vertex shaders, as a function of the uniform      *)
(* values the shader sees (floats).  A quotient is kept as the exact       *)
(* fraction; the shader only clamps and compares it.                       *)
(***************************************************************************)
\* mutant of Clamp01: no lower bound
Clamp01NoFloor(q) ==
    IF q[1] > q[2] THEN One ELSE q

\* clamp(q, 0.0, 1.0)
Clamp01(q) ==
    IF q[1] < 0 THEN Zero ELSE IF q[1] > q[2] THEN One ELSE q

\* mutants of MinQ: the maximum, and the value of the later record
MaxQ(a, b) == IF b[1] * a[2] > a[1] * b[2] THEN b ELSE a

LastQ(a, b) == b

\* min(a, b) of GLSL: b when b < a, else a
MinQ(a, b) == IF b[1] * a[2] < a[1] * b[2] THEN b ELSE a

\* int(n / d) of GLSL for d > 0: the fraction is dropped
TruncDiv(n, d) == IF n >= 0 THEN n \div d ELSE -((-n) \div d)

\* mutant of withinCutRadius
withinCutRadiusLe(p, data, i) ==
    LET dx == p[1] - data[i * CUT_AREA_STRIDE]
        dz == p[2] - data[i * CUT_AREA_STRIDE + 2]
        cutRadius == data[i * CUT_AREA_STRIDE + 3]
    IN  cutRadius >= 0 /\ dx * dx + dz * dz <= cutRadius * cutRadius

\* distance(position.xz, cutPosition.xz) < cutRadius
withinCutRadius(p, data, i) ==
    LET dx == p[1] - data[i * CUT_AREA_STRIDE]
        dz == p[2] - data[i * CUT_AREA_STRIDE + 2]
        cutRadius == data[i * CUT_AREA_STRIDE + 3]
    IN  cutRadius > 0 /\ dx * dx + dz * dz < cutRadius * cutRadius

\* continuous shader: clamp(timeSinceCut / uRegrowthTime, 0.0, 1.0)
growthProgressContinuous(timeSinceCut, uRegrowthTime) ==
    Clamp01(<<timeSinceCut, uRegrowthTime>>)

\* mutant of growthProgressStaged: a stage lasts uRegrowthTime / (uGrowthStages - 1)
growthProgressStagedLong(timeSinceCut, uRegrowthTime, uGrowthStages) ==
    Clamp01(<<TruncDiv(timeSinceCut * (uGrowthStages - 1), uRegrowthTime),
              uGrowthStages - 1>>)

\* mutant of growthProgressStaged: the stage index wraps around
growthProgressStagedCyclic(timeSinceCut, uRegrowthTime, uGrowthStages) ==
    Clamp01(<<TruncDiv(timeSinceCut * uGrowthStages, uRegrowthTime) % uGrowthStages,
              uGrowthStages - 1>>)

\* staged shader: stageTime = uRegrowthTime / float(uGrowthStages),
\* currentStage = int(timeSinceCut / stageTime),
\* clamp(float(currentStage) / float(uGrowthStages - 1), 0.0, 1.0)
growthProgressStaged(timeSinceCut, uRegrowthTime, uGrowthStages) ==
    Clamp01(<<TruncDiv(timeSinceCut * uGrowthStages, uRegrowthTime),
              uGrowthStages - 1>>)

growthProgress(mode, timeSinceCut) ==
    IF mode = "staged"
    THEN growthProgressStaged(timeSinceCut, REGROWTH_TIME, GROWTH_STAGES)
    ELSE growthProgressContinuous(timeSinceCut, REGROWTH_TIME)

LoopLimit(mode) ==
    IF mode = "staged" THEN SHADER_LOOP_STAGED ELSE SHADER_LOOP_CONTINUOUS

\* uniform float uCutAreas[N]: the declared size
ArraySize(mode) ==
    IF mode = "staged" THEN SHADER_ARRAY_STAGED ELSE SHADER_ARRAY_CONTINUOUS

\* the for loop of getGrowthStage from iteration i on
RECURSIVE growthLoop(_, _, _, _, _, _, _)
growthLoop(mode, i, minGrowthStage, p, data, count, currentTime) ==
    IF i >= LoopLimit(mode) \/ i >= count
    THEN minGrowthStage
    ELSE growthLoop(mode, i + 1,
            IF withinCutRadius(p, data, i)
            THEN MinQ(minGrowthStage,
                      growthProgress(mode,
                          Float32(currentTime - data[i * CUT_AREA_STRIDE + 4])))
            ELSE minGrowthStage,
            p, data, count, currentTime)

\* float getGrowthStage(vec3 position)
getGrowthStage(mode, p, data, count, currentTime) ==
    growthLoop(mode, 0, One, p, data, count, currentTime)

IsOne(q) == q[1] = q[2]
IsZero(q) == q[1] = 0
\* q = n / d
IsFrac(q, n, d) == q[1] * d = n * q[2]

(***************************************************************************)
(* Spec: any caller of the Grass object, with requests in, on and outside  *)
(* the field and radii that are positive, zero and negative.               *)
(***************************************************************************)
InField == {<<0, 0>>, <<50, 60>>, <<-50, -60>>}
OutOfField == {<<51, 0>>, <<-51, 0>>, <<0, 61>>, <<0, -61>>}
Requests ==
    ((InField \cup OutOfField) \X {CUT_RADIUS}) \cup ({<<0, 0>>, <<51, 0>>} \X {0, -1})

\* mower switch and indicator text
indicatorText(down) == IF down THEN "Mower: ON" ELSE "Mower: OFF"

\* index.js: no key held, the mower OFF, the collision box at the origin
MowerInit ==
    /\ keys = {}
    /\ mowerDown = FALSE
    /\ mowerIndicator = "Mower: OFF"
    /\ collisionBox = <<0, 0>>

\* corridor variant before the first frame: the player at (0, 0.5, -50) on the
\* ground, createGrassTile(0) done
CorridorInit ==
    /\ controllableObject = [y |-> GROUND_Y, z |-> START_Z]
    /\ velocityY = 0
    /\ isJumping = FALSE
    /\ grassTiles = {0}
    /\ currentTileZ = 0
    /\ sceneGrass = <<0>>
    /\ landed = FALSE

\* index.js before the first frame, no polygon field under construction
OuterInit ==
    /\ lastCutTime = LastCutTimeInit
    /\ frames = 0
    /\ ctorCount = 0
    /\ draws = 0
    /\ actualCount = 0
    /\ bladePositions = <<>>
    /\ positions = <<>>
    /\ indices = <<>>
    /\ MowerInit
    /\ CorridorInit

Init ==
    /\ cutAreas = <<>>
    /\ uCutAreas = [k \in 0..(BufferLen - 1) |-> 0]
    /\ uCutAreasCount = 0
    /\ uCurrentTime = UniformTimeInit
    /\ now = InitNow
    /\ op = "init"
    /\ req = NoReq
    /\ ret = NoRet
    /\ cuts = 0
    /\ pruned = FALSE
    /\ position = <<0, 0>>
    /\ vGrowthStage = [m \in Modes |-> One]
    /\ OuterInit

Next ==
    \/ \E r \in Requests :
          cuts < MaxCuts /\ CheckAndCutGrass(r[1], r[2], now) /\ UNCHANGED outer
    \/ \E radius \in {CUT_RADIUS, 0} :
          cuts < MaxCuts /\ CutGrass(<<0, 0>>, radius, now) /\ UNCHANGED outer
    \/ RegrowGrass /\ UNCHANGED outer
    \/ Update /\ UNCHANGED outer
    \/ Tick /\ UNCHANGED outer

Spec == Init /\ [][Next]_vars

(***************************************************************************)
(* SpecFill: a mower sweeping the field along z = 0.  It cuts at a new     *)
(* spot SweepStride ms after the previous call, so the ledger fills up and *)
(* evicts; it also idles for a regrowth time, and the frame loop prunes.   *)
(***************************************************************************)
Lane(k) == <<(3 * CUT_RADIUS) * k - (width \div 2), 0>>

SweepCut ==
    /\ cuts < MaxSweepCuts
    /\ CutGrass(Lane(cuts), CUT_RADIUS, now + SweepStride)

SweepWait ==
    /\ now - InitNow - cuts * SweepStride < MaxSweepWaits * REGROWTH_TIME
    /\ TickBy(REGROWTH_TIME)

\* the frame loop prunes in its first frame after the idle time, before or
\* after that frame's cut: some event has expired, at most one has not
SweepExpired ==
    /\ \E i \in 1..Len(cutAreas) : now - cutAreas[i].cutTime >= REGROWTH_TIME
    /\ \A i \in 1..(Len(cutAreas) - 1) : now - cutAreas[i].cutTime >= REGROWTH_TIME

SweepRegrow == SweepExpired /\ RegrowGrass

SweepUpdate == SweepExpired /\ Update

NextFill ==
    \/ SweepCut /\ UNCHANGED outer
    \/ SweepWait /\ UNCHANGED outer
    \/ SweepRegrow /\ UNCHANGED outer
    \/ SweepUpdate /\ UNCHANGED outer

SpecFill == Init /\ [][NextFill]_vars

(***************************************************************************)
(* SpecEval: getGrowthStage as a pure function.  Init draws the uniforms:  *)
(* one cut record at the origin and a vertex; the steps run the shader's   *)
(* main for that vertex at later and later values of uCurrentTime.         *)
(***************************************************************************)
EvalCutTimes == {0, 1, 2 * EvalTick}
EvalRadii == {CUT_RADIUS, 2 * CUT_RADIUS}
EvalPositions == {<<0, 0>>, <<1, 0>>, <<1, 1>>, <<0, 2>>, <<3, 0>>}

InitEval ==
    /\ cutAreas = <<>>
    /\ \E t \in EvalCutTimes, radius \in EvalRadii :
          uCutAreas = [k \in 0..(BufferLen - 1) |->
                          IF k = 3 THEN radius ELSE IF k = 4 THEN t ELSE 0]
    /\ uCutAreasCount = 1
    /\ uCurrentTime = 0
    /\ now = InitNow
    /\ op = "init"
    /\ req = NoReq
    /\ ret = NoRet
    /\ cuts = 0
    /\ pruned = FALSE
    /\ position \in EvalPositions
    /\ vGrowthStage = [m \in Modes |-> One]
    /\ OuterInit

\* main() of the vertex shader for vertex p when uCurrentTime = t
VertexMain(p, t) ==
    /\ position' = p
    /\ uCurrentTime' = t
    /\ vGrowthStage' = [m \in Modes |->
                            getGrowthStage(m, p, uCutAreas, uCutAreasCount, t)]
    /\ op' = "main"
    /\ UNCHANGED <<cutAreas, uCutAreas, uCutAreasCount, now, req, ret, cuts, pruned>>

EvalFrame ==
    /\ uCurrentTime + EvalTick <= MaxEvalSteps * EvalTick
    /\ VertexMain(position, uCurrentTime + EvalTick)

EvalVertex ==
    \E p \in EvalPositions : VertexMain(p, uCurrentTime)

NextEval ==
    \/ EvalFrame /\ UNCHANGED outer
    \/ EvalVertex /\ UNCHANGED outer

SpecEval == InitEval /\ [][NextEval]_vars

(***************************************************************************)
(* SpecOverlap: getGrowthStage over two buffer records.  Init draws the    *)
(* uniforms: record 0 at the origin, record 1 at or next to it, each with  *)
(* its radius and cut time, and an active count of 1 or 2 (with 1, record  *)
(* 1 is a stale record behind the count); the steps are those of SpecEval. *)
(***************************************************************************)
OverlapCentres == {<<0, 0>>, <<1, 0>>}
OverlapCutTimes == {0, 2 * EvalTick, 8 * EvalTick}

CutRecord(p, radius, t, s) ==
    CASE s = 0 -> p[1]
      [] s = 2 -> p[2]
      [] s = 3 -> radius
      [] s = 4 -> t
      [] OTHER -> 0

InitOverlap ==
    /\ cutAreas = <<>>
    /\ \E r0 \in EvalRadii, t0 \in OverlapCutTimes, c1 \in OverlapCentres,
          r1 \in EvalRadii, t1 \in OverlapCutTimes :
          uCutAreas = [k \in 0..(BufferLen - 1) |->
              IF k < CUT_AREA_STRIDE THEN CutRecord(<<0, 0>>, r0, t0, k)
              ELSE IF k < 2 * CUT_AREA_STRIDE
                   THEN CutRecord(c1, r1, t1, k - CUT_AREA_STRIDE)
                   ELSE 0]
    /\ uCutAreasCount \in {1, 2}
    /\ uCurrentTime = 0
    /\ now = InitNow
    /\ op = "init"
    /\ req = NoReq
    /\ ret = NoRet
    /\ cuts = 0
    /\ pruned = FALSE
    /\ position \in EvalPositions
    /\ vGrowthStage = [m \in Modes |-> One]
    /\ OuterInit

SpecOverlap == InitOverlap /\ [][NextEval]_vars

(***************************************************************************)
(* SpecFrame: the mowing loop of index.js.  The steps are the keydown and  *)
(* keyup handlers and the callback of renderer.setAnimationLoop: the move, *)
(* cutGrassUnderObject when a movement key is held and the mower is on,    *)
(* then grass.update, then the draw, for which the vertex shader runs with *)
(* the uniforms as they are then.  The mower heads along +z; one move      *)
(* (0.1 in index.js) and the cut radius (1.2) are kept in whole world      *)
(* units.                                                                  *)
(***************************************************************************)
FrameDeltas == {CUT_INTERVAL \div 2, TickStep}
ClockSkews == {0, 1}
MowerCutRadius == CUT_RADIUS
MowerMoveStep == 1

\* const keys = { 'w': false, 'a': false, 's': false, 'd': false, 'c': false }
KeyTable == {"w", "a", "s", "d", "c"}
MovementKeys == {"w", "a", "s", "d"}
\* event.key.toLowerCase() of the key events: forward, the mower switch and
\* a key that is not in the table
KeyEvents == {"w", "c", "x"}

\* mutant of cutGate
cutGateGe(currentTime, last) == currentTime - last >= CUT_INTERVAL

\* cutGrassUnderObject: currentTime - lastCutTime > CUT_INTERVAL
cutGate(currentTime, last) == currentTime - last > CUT_INTERVAL

\* mutant of cutTriggered: the mower switch is not looked at
cutTriggeredAnyMower(held, down) == held \cap MovementKeys # {}

\* (keys['w'] || keys['s'] || keys['a'] || keys['d']) && mowerDown, and in
\* cutGrassUnderObject if (!mowerDown) return
cutTriggered(held, down) ==
    /\ held \cap MovementKeys # {} /\ down
    /\ ~(~down)

\* one frame: the clock reads currentTime in cutGrassUnderObject, cutGrass
\* and regrowGrass, and currentTime + skew when update writes uCurrentTime;
\* mowing says whether a movement key is held with the mower on, p is the
\* place of the collision box after the move
Frame(currentTime, skew, mowing, p) ==
    LET gate == mowing /\ cutGate(currentTime, lastCutTime)
        accepted == gate /\ isWithinField(p)
        cut == IF accepted
               THEN cutGrassLedger(cutAreas, p, MowerCutRadius, currentTime)
               ELSE cutAreas
        cutData == IF accepted THEN updateCutAreasUniform(cut, uCutAreas)
                   ELSE uCutAreas
        live == regrowFilter(cut, currentTime)
        data == updateCutAreasUniform(live, cutData)
    IN  /\ frames' = frames + 1
        /\ lastCutTime' = IF gate THEN currentTime ELSE lastCutTime
        /\ cutAreas' = live
        /\ uCutAreas' = data
        /\ uCutAreasCount' = Len(live)
        /\ uCurrentTime' = currentTime + skew
        /\ now' = currentTime + skew
        /\ cuts' = IF accepted THEN cuts + 1 ELSE cuts
        /\ pruned' = (pruned \/ Len(live) < Len(cut))
        /\ req' = IF gate THEN Request(p, MowerCutRadius) ELSE NoReq
        /\ ret' = IF gate THEN accepted ELSE NoRet
        /\ op' = "frame"
        /\ position' = <<0, 0>>
        /\ vGrowthStage' = [m \in Modes |->
               getGrowthStage(m, <<0, 0>>, data, Len(live),
                              Float32Time(currentTime + skew))]
        /\ collisionBox' = p
        /\ UNCHANGED <<ctorCount, draws, actualCount, geometry, keys, mowerDown,
                       mowerIndicator, corridor>>

\* the collision box after the move of a frame; blocked is checkCollisions
movedBox(box, held, blocked) ==
    LET forward == IF "w" \in held THEN MowerMoveStep ELSE 0
        back == IF "s" \in held THEN MowerMoveStep ELSE 0
        nextPosition == <<box[1], box[2] + forward - back>>
    IN  IF blocked THEN box ELSE nextPosition

\* the callback of renderer.setAnimationLoop, d ms after the last clock reading
AnimationFrame ==
    \E d \in FrameDeltas, skew \in ClockSkews, blocked \in BOOLEAN :
        /\ frames < MaxFrames
        /\ Frame(now + d, skew, cutTriggered(keys, mowerDown),
                 movedBox(collisionBox, keys, blocked))

HandlerUnchanged ==
    UNCHANGED <<cutAreas, uCutAreas, uCutAreasCount, uCurrentTime, now, req, ret,
                cuts, pruned, position, vGrowthStage, lastCutTime, frames,
                ctorCount, draws, actualCount, geometry, collisionBox, corridor>>

\* the keydown listener for a key k
KeyDown(k) ==
    /\ keys' = IF k \in KeyTable THEN keys \cup {k} ELSE keys
    /\ mowerDown' = IF k = "c" THEN ~mowerDown ELSE mowerDown
    /\ mowerIndicator' = IF k = "c" THEN indicatorText(mowerDown')
                         ELSE mowerIndicator
    /\ op' = "keydown"
    /\ HandlerUnchanged

\* the keyup listener for a key k
KeyUp(k) ==
    /\ keys' = IF k \in KeyTable THEN keys \ {k} ELSE keys
    /\ op' = "keyup"
    /\ UNCHANGED <<mowerDown, mowerIndicator>>
    /\ HandlerUnchanged

NextFrame ==
    \/ AnimationFrame
    \/ \E k \in KeyEvents : KeyDown(k)
    \/ \E k \in KeyEvents : KeyUp(k)

SpecFrame == Init /\ [][NextFrame]_vars

(***************************************************************************)
(* Grass geometry.  A blade stands at a point <<x, z>> of the ground; the  *)
(* array positions is kept as one entry per vertex (three floats in the    *)
(* code), holding the blade's centre and which of its corners it is.       *)
(***************************************************************************)
BladeCorners == <<"bl", "br", "tr", "tl", "tc">>

\* computeBlade(center, index): the vertices and the triangle indices
computeBlade(center, index) ==
    LET vIndex == index * BLADE_VERTEX_COUNT
    IN  [positions |-> [c \in 1..BLADE_VERTEX_COUNT |->
                           [center |-> center, corner |-> BladeCorners[c]]],
         indices |-> <<vIndex, vIndex + 1, vIndex + 2,
                       vIndex + 2, vIndex + 4, vIndex + 3,
                       vIndex + 3, vIndex, vIndex + 2>>]

\* createIrregularGarden: const boundaryPoints
boundaryPoints ==
    << <<-30, -40>>, <<10, -50>>, <<40, -30>>, <<50, 5>>, <<40, 35>>,
       <<5, 40>>, <<-20, 45>>, <<-45, 25>>, <<-50, -5>>, <<-40, -25>> >>

\* the bounding box of the polygon
CoordinatesOf(polygon, c) == {polygon[i][c] : i \in DOMAIN polygon}
Least(S) == CHOOSE v \in S : \A w \in S : v <= w
Greatest(S) == CHOOSE v \in S : \A w \in S : v >= w
minX == Least(CoordinatesOf(boundaryPoints, 1))
maxX == Greatest(CoordinatesOf(boundaryPoints, 1))
minZ == Least(CoordinatesOf(boundaryPoints, 2))
maxZ == Greatest(CoordinatesOf(boundaryPoints, 2))

\* x < (xj - xi) * (z - zi) / (zj - zi) + xi, for zj # zi, without the division
crossesLeftOf(x, z, pi, pj) ==
    LET d == pj[2] - pi[2]
        lhs == (x - pi[1]) * d
        rhs == (pj[1] - pi[1]) * (z - pi[2])
    IN  IF d > 0 THEN lhs < rhs ELSE lhs > rhs

\* the loop of isPointInPolygon from edge i on, j being the previous vertex
RECURSIVE polygonLoop(_, _, _, _, _, _)
polygonLoop(i, j, inside, x, z, polygon) ==
    IF i > Len(polygon) THEN inside
    ELSE LET intersect ==
                 /\ (polygon[i][2] > z) # (polygon[j][2] > z)
                 /\ crossesLeftOf(x, z, polygon[i], polygon[j])
         IN  polygonLoop(i + 1, i, IF intersect THEN ~inside ELSE inside,
                         x, z, polygon)

\* isPointInPolygon(x, z, polygon): the even-odd rule
isPointInPolygon(x, z, polygon) ==
    polygonLoop(1, Len(polygon), FALSE, x, z, polygon)

(***************************************************************************)
(* SpecPolygon: the blade loop of the geometry constructor that            *)
(* createPolygonalGrassGeometry installs.  Init draws the constructor's    *)
(* argument count (the call in index.js passes 0); one step draws one      *)
(* candidate point of the bounding box, none of them on a boundary line,   *)
(* which isPointInPolygon accepts or rejects.                              *)
(***************************************************************************)
\* minX + Math.random() * (maxX - minX), minZ + Math.random() * (maxZ - minZ)
PolygonCandidates ==
    {p \in {<<0, 0>>, <<-20, 30>>, <<6, 40>>, <<-45, -45>>} :
        /\ minX <= p[1] /\ p[1] < maxX
        /\ minZ <= p[2] /\ p[2] < maxZ}

\* mutant of polygonLoopContinues
polygonLoopContinuesLe(i, accepted, n) == i <= n * 2 /\ accepted < n

\* for (let i = 0; i < count * 2 && actualCount < count; i++)
polygonLoopContinues(i, accepted, n) == i < n * 2 /\ accepted < n

InitPolygon ==
    /\ cutAreas = <<>>
    /\ uCutAreas = [k \in 0..(BufferLen - 1) |-> 0]
    /\ uCutAreasCount = 0
    /\ uCurrentTime = UniformTimeInit
    /\ now = InitNow
    /\ op = "constructor"
    /\ req = NoReq
    /\ ret = NoRet
    /\ cuts = 0
    /\ pruned = FALSE
    /\ position = <<0, 0>>
    /\ vGrowthStage = [m \in Modes |-> One]
    /\ lastCutTime = LastCutTimeInit
    /\ frames = 0
    /\ ctorCount \in 0..MaxBlades
    /\ draws = 0
    /\ actualCount = 0
    /\ bladePositions = <<>>
    /\ positions = <<>>
    /\ indices = <<>>
    /\ MowerInit
    /\ CorridorInit

\* one iteration of the loop for the candidate point p
DrawCandidate(p) ==
    LET inside == isPointInPolygon(p[1], p[2], boundaryPoints)
        blade == computeBlade(p, actualCount)
    IN  /\ op \in {"constructor", "draw"}
        /\ polygonLoopContinues(draws, actualCount, ctorCount)
        /\ draws' = draws + 1
        /\ actualCount' = IF inside THEN actualCount + 1 ELSE actualCount
        /\ bladePositions' = IF inside THEN Append(bladePositions, p)
                              ELSE bladePositions
        /\ positions' = IF inside THEN positions \o blade.positions ELSE positions
        /\ indices' = IF inside
                       THEN indices \o [k \in 1..Len(blade.indices) |->
                                blade.indices[k] + actualCount * 5]
                       ELSE indices
        /\ op' = "draw"
        /\ UNCHANGED <<cutAreas, uCutAreas, uCutAreasCount, uCurrentTime, now, req,
                       ret, cuts, pruned, position, vGrowthStage, lastCutTime,
                       frames, ctorCount, mower, corridor>>

\* the loop has ended: setAttribute, setIndex, computeVertexNormals
FinishGeometry ==
    /\ op \in {"constructor", "draw"}
    /\ ~polygonLoopContinues(draws, actualCount, ctorCount)
    /\ op' = "geometry"
    /\ UNCHANGED <<cutAreas, uCutAreas, uCutAreasCount, uCurrentTime, now, req, ret,
                   cuts, pruned, position, vGrowthStage, lastCutTime, frames,
                   ctorCount, draws, actualCount, geometry, mower, corridor>>

NextPolygon ==
    \/ \E p \in PolygonCandidates : DrawCandidate(p)
    \/ FinishGeometry

\* the constructor is synchronous code: it runs on until it returns
SpecPolygon == InitPolygon /\ [][NextPolygon]_vars /\ WF_vars(NextPolygon)

(***************************************************************************)
(* SpecGarden: createIrregularGarden.  createPolygonalGrassGeometry        *)
(* assigns its function to the property GrassGeometry.prototype.constructor *)
(* and returns new GrassGeometry(0, 0, 0); new Grass(GARDEN_WIDTH,          *)
(* GARDEN_LENGTH, BLADE_COUNT, grassGeometry) has three parameters and      *)
(* builds new GrassGeometry(width, length, count) itself.  new runs the     *)
(* constructor of the class body both times.  BLADE_COUNT is drawn from     *)
(* 1..MaxFieldBlades; one step of the loop places one blade at a point of   *)
(* Math.random() * width - halfWidth, Math.random() * length - halfLength.  *)
(***************************************************************************)
RectangleCandidates ==
    {<<0, 0>>, <<-20, 30>>, <<6, 40>>, <<-(width \div 2), -(length \div 2)>>,
     <<(width \div 2) - 1, (length \div 2) - 1>>}

InitGarden ==
    /\ cutAreas = <<>>
    /\ uCutAreas = [k \in 0..(BufferLen - 1) |-> 0]
    /\ uCutAreasCount = 0
    /\ uCurrentTime = UniformTimeInit
    /\ now = InitNow
    /\ op = "createIrregularGarden"
    /\ req = NoReq
    /\ ret = NoRet
    /\ cuts = 0
    /\ pruned = FALSE
    /\ position = <<0, 0>>
    /\ vGrowthStage = [m \in Modes |-> One]
    /\ lastCutTime = LastCutTimeInit
    /\ frames = 0
    /\ ctorCount \in 1..MaxFieldBlades
    /\ draws = 0
    /\ actualCount = 0
    /\ bladePositions = <<>>
    /\ positions = <<>>
    /\ indices = <<>>
    /\ MowerInit
    /\ CorridorInit

GardenUnchanged ==
    UNCHANGED <<cutAreas, uCutAreas, uCutAreasCount, uCurrentTime, now, req, ret,
                cuts, pruned, position, vGrowthStage, lastCutTime, frames,
                ctorCount, mower, corridor>>

\* createPolygonalGrassGeometry: new GrassGeometry(0, 0, 0), whose loop
\* for (let i = 0; i < count; i++) does not run; Grass drops the result
CreatePolygonalGrassGeometry ==
    /\ op = "createIrregularGarden"
    /\ op' = "createPolygonalGrassGeometry"
    /\ draws' = 0
    /\ actualCount' = 0
    /\ bladePositions' = <<>>
    /\ positions' = <<>>
    /\ indices' = <<>>
    /\ GardenUnchanged

\* one iteration of the loop of the class constructor, run by
\* new GrassGeometry(width, length, count) in the Grass constructor
RectangleBlade(p) ==
    LET blade == computeBlade(p, draws)
    IN  /\ op \in {"createPolygonalGrassGeometry", "blade"}
        /\ draws < ctorCount
        /\ draws' = draws + 1
        /\ actualCount' = actualCount
        /\ bladePositions' = Append(bladePositions, p)
        /\ positions' = positions \o blade.positions
        /\ indices' = indices \o blade.indices
        /\ op' = "blade"
        /\ GardenUnchanged

\* the loop has ended; createIrregularGarden returns the Grass object
ReturnGrass ==
    /\ op \in {"createPolygonalGrassGeometry", "blade"}
    /\ ~(draws < ctorCount)
    /\ op' = "garden"
    /\ UNCHANGED <<draws, actualCount, geometry>>
    /\ GardenUnchanged

NextGarden ==
    \/ CreatePolygonalGrassGeometry
    \/ \E p \in RectangleCandidates : RectangleBlade(p)
    \/ ReturnGrass

SpecGarden == InitGarden /\ [][NextGarden]_vars

(***************************************************************************)
(* SpecCorridor: the corridor variant (src/unnamed/part_006).  The steps   *)
(* are its keydown and keyup listeners and the callback of                 *)
(* renderer.setAnimationLoop: the move, gravity and landing, then          *)
(* updateActiveTiles.  Lengths and speeds are tenths of a world unit, so   *)
(* that one move is 1 and a tile is 780 long.  The x coordinate, the       *)
(* light and the camera feed nothing back and are left out; no tile is     *)
(* ever cut, so the ledgers of the tiles stay empty.  The walk is followed *)
(* a number of moves to either side of the start, and a jump begun there   *)
(* up to its landing: MaxWalk moves in SpecCorridor, far enough to change  *)
(* tile, and MaxJumpWalk moves in SpecJump, which adds the fairness of the *)
(* animation loop.                                                         *)
(***************************************************************************)
\* case 'w': ... case ' ': of the listeners
CorridorKeyEvents == {"w", "s", " "}
CorridorKeyTable == {"w", "a", "s", "d"}

\* mutant of canJump
canJumpAlways(jumping) == TRUE

\* keydown of the space bar: if (!isJumping)
canJump(jumping) == ~jumping

\* the sequence seq without its last entry equal to v
RemoveLast(seq, v) ==
    LET at == {i \in 1..Len(seq) : seq[i] = v}
    IN  IF at = {} THEN seq
        ELSE SubSeq(seq, 1, Greatest(at) - 1)
                 \o SubSeq(seq, Greatest(at) + 1, Len(seq))

\* mutant of createGrassTile: no test for an existing tile
createGrassTileAgain(st, tileZ) ==
    [tiles |-> st.tiles \cup {tileZ}, scene |-> Append(st.scene, tileZ)]

\* createGrassTile(tileZ) on the Map keys st.tiles and the scene st.scene
createGrassTile(st, tileZ) ==
    IF tileZ \in st.tiles THEN st
    ELSE [tiles |-> st.tiles \cup {tileZ}, scene |-> Append(st.scene, tileZ)]

\* removeGrassTile(tileZ): scene.remove(grass), dispose, grassTiles.delete
removeGrassTile(st, tileZ) ==
    IF tileZ \notin st.tiles THEN st
    ELSE [tiles |-> st.tiles \ {tileZ}, scene |-> RemoveLast(st.scene, tileZ)]

\* for (let z = minZ; z <= maxZ; z++) createGrassTile(z), from z on
RECURSIVE createLoop(_, _, _)
createLoop(z, last, st) ==
    IF z > last THEN st ELSE createLoop(z + 1, last, createGrassTile(st, z))

\* for (const z of grassTiles.keys()) if (!activeKeys.has(z)) removeGrassTile(z)
RECURSIVE removeLoop(_, _, _)
removeLoop(pending, activeKeys, st) ==
    IF pending = {} THEN st
    ELSE LET z == Least(pending)
         IN  removeLoop(pending \ {z}, activeKeys,
                        IF z \notin activeKeys THEN removeGrassTile(st, z) ELSE st)

\* updateActiveTiles for the player at z: the new currentTileZ, Map and scene
updateActiveTiles(z, tileZ, st) ==
    LET newTileZ == z \div TILE_LENGTH
        first == newTileZ - ACTIVE_TILES_BEHIND
        last == newTileZ + ACTIVE_TILES_AHEAD
        created == createLoop(first, last, st)
    IN  IF newTileZ # tileZ
        THEN [tileZ |-> newTileZ,
              st |-> removeLoop(created.tiles, first..last, created)]
        ELSE [tileZ |-> tileZ, st |-> st]

InitCorridor ==
    /\ cutAreas = <<>>
    /\ uCutAreas = [k \in 0..(BufferLen - 1) |-> 0]
    /\ uCutAreasCount = 0
    /\ uCurrentTime = UniformTimeInit
    /\ now = InitNow
    /\ op = "init"
    /\ req = NoReq
    /\ ret = NoRet
    /\ cuts = 0
    /\ pruned = FALSE
    /\ position = <<0, 0>>
    /\ vGrowthStage = [m \in Modes |-> One]
    /\ OuterInit

CorridorUnchanged ==
    UNCHANGED <<cutAreas, uCutAreas, uCutAreasCount, uCurrentTime, now, req, ret,
                cuts, pruned, position, vGrowthStage, lastCutTime, frames,
                ctorCount, draws, actualCount, geometry, mowerDown,
                mowerIndicator, collisionBox>>

\* the keydown listener for a key k, within walk moves of the start
CorridorKeyDown(k, walk) ==
    /\ k = " " => Abs(controllableObject.z - START_Z) <= walk
    /\ keys' = IF k \in CorridorKeyTable THEN keys \cup {k} ELSE keys
    /\ velocityY' = IF k = " " /\ canJump(isJumping) THEN jumpStrength
                    ELSE velocityY
    /\ isJumping' = IF k = " " /\ canJump(isJumping) THEN TRUE ELSE isJumping
    /\ op' = "keydown"
    /\ UNCHANGED <<controllableObject, grassTiles, currentTileZ, sceneGrass, landed>>
    /\ CorridorUnchanged

\* the keyup listener for a key k
CorridorKeyUp(k) ==
    /\ keys' = IF k \in CorridorKeyTable THEN keys \ {k} ELSE keys
    /\ op' = "keyup"
    /\ UNCHANGED corridor
    /\ CorridorUnchanged

\* the callback of renderer.setAnimationLoop, within walk moves of the start
CorridorFrame(walk) ==
    LET forward == IF "w" \in keys THEN moveSpeed ELSE 0
        back == IF "s" \in keys THEN moveSpeed ELSE 0
        z == controllableObject.z - forward + back
        fallen == velocityY - gravity
        y == controllableObject.y + fallen
        lands == isJumping /\ y <= GROUND_Y
        tiles == updateActiveTiles(z, currentTileZ,
                                   [tiles |-> grassTiles, scene |-> sceneGrass])
    IN  /\ \/ isJumping
           \/ Abs(z - START_Z) <= walk
           \/ Abs(z - START_Z) <= Abs(controllableObject.z - START_Z)
        /\ controllableObject' =
              [y |-> IF ~isJumping THEN controllableObject.y
                     ELSE IF lands THEN GROUND_Y ELSE y,
               z |-> z]
        /\ velocityY' = IF ~isJumping THEN velocityY
                        ELSE IF lands THEN 0 ELSE fallen
        /\ isJumping' = (isJumping /\ ~lands)
        /\ landed' = (landed \/ lands)
        /\ currentTileZ' = tiles.tileZ
        /\ grassTiles' = tiles.st.tiles
        /\ sceneGrass' = tiles.st.scene
        /\ op' = "frame"
        /\ UNCHANGED keys
        /\ CorridorUnchanged

NextCorridor ==
    \/ CorridorFrame(MaxWalk)
    \/ \E k \in CorridorKeyEvents : CorridorKeyDown(k, MaxWalk)
    \/ \E k \in CorridorKeyEvents : CorridorKeyUp(k)

SpecCorridor == InitCorridor /\ [][NextCorridor]_vars

NextJump ==
    \/ CorridorFrame(MaxJumpWalk)
    \/ \E k \in CorridorKeyEvents : CorridorKeyDown(k, MaxJumpWalk)
    \/ \E k \in CorridorKeyEvents : CorridorKeyUp(k)

\* the browser keeps calling the animation callback
SpecJump ==
    InitCorridor /\ [][NextJump]_vars /\ WF_vars(CorridorFrame(MaxJumpWalk))

(***************************************************************************)
(* The claims                                                              *)
(***************************************************************************)
CutStep == op' = "cutGrass" \/ (op' = "checkAndCutGrass" /\ ret' = TRUE)
PruneStep == op' \in {"regrowGrass", "update"}
RequestedEvent == CutEvent(<<req'.x, req'.z>>, req'.radius, now')
TransportUnchanged ==
    /\ cutAreas' = cutAreas
    /\ uCutAreas' = uCutAreas
    /\ uCutAreasCount' = uCutAreasCount

\* C1: after any sequence of cutGrass, regrowGrass and update calls that starts
\* from the empty ledger, the ledger holds at most MAX_CUT_AREAS = 20 events.
C1_LedgerWithinCapacity == Len(cutAreas) <= MAX_CUT_AREAS

C1_Witness ==
    /\ op = "cutGrass"
    /\ cuts > MAX_CUT_AREAS
    /\ Len(cutAreas) = MAX_CUT_AREAS

\* C2 as stated: after 25 distinct cuts at increasing timestamps and
\* non-overlapping positions, with nothing pruned, the ledger holds exactly the
\* 5 most recent cuts.
C2_Original ==
    (cuts = 25 /\ ~pruned) =>
        /\ Len(cutAreas) = 5
        /\ \A i \in 1..5 : cutAreas[i].position.x = Lane(19 + i)[1]

\* C2 as amended: after 25 distinct cuts at increasing timestamps and
\* non-overlapping positions, with nothing pruned, the ledger holds exactly the
\* 20 most recent cuts in insertion order (the 6th to the 25th); the 5 oldest
\* are the ones evicted.
C2_RetainsTwentyMostRecent ==
    (cuts = 25 /\ ~pruned) =>
        /\ Len(cutAreas) = MAX_CUT_AREAS
        /\ \A i \in 1..MAX_CUT_AREAS :
              /\ cutAreas[i].position = [x |-> Lane(4 + i)[1], y |-> 0, z |-> 0]
              /\ cutAreas[i].radius = CUT_RADIUS
        /\ \A i \in 1..(MAX_CUT_AREAS - 1) :
              cutAreas[i].cutTime < cutAreas[i + 1].cutTime

C2_Witness == cuts = 25 /\ ~pruned /\ op = "cutGrass"

\* C3: a cut recorded on a ledger of length MAX_CUT_AREAS removes exactly the
\* first event and appends the new one (the new ledger is the old one without
\* its head, followed by the new event); on a shorter ledger it only appends.
C3_EvictOldestThenAppend ==
    [][CutStep =>
        LET n == Len(cutAreas) IN
        IF n = MAX_CUT_AREAS
        THEN /\ Len(cutAreas') = n
             /\ \A i \in 1..(n - 1) : cutAreas'[i] = cutAreas[i + 1]
             /\ cutAreas'[n] = RequestedEvent
        ELSE /\ n < MAX_CUT_AREAS
             /\ Len(cutAreas') = n + 1
             /\ \A i \in 1..n : cutAreas'[i] = cutAreas[i]
             /\ cutAreas'[n + 1] = RequestedEvent]_vars

C3_Witness ==
    /\ op = "cutGrass"
    /\ ~pruned
    /\ cuts = MAX_CUT_AREAS + 1
    /\ Len(cutAreas) = MAX_CUT_AREAS
    /\ cutAreas[1].position.x = Lane(1)[1]
    /\ cutAreas[MAX_CUT_AREAS].position.x = Lane(MAX_CUT_AREAS)[1]

\* C4 as stated: in every reachable state every event in the ledger has
\* age = now - cutTime < REGROWTH_TIME.
C4_Original ==
    \A i \in 1..Len(cutAreas) : now - cutAreas[i].cutTime < REGROWTH_TIME

\* C4 as amended: right after regrowGrass or update has run, every event in
\* the ledger has age = now - cutTime < REGROWTH_TIME, now being the clock
\* reading regrowGrass pruned with; between two such calls an event stays in
\* the ledger although its age has reached REGROWTH_TIME.
C4_LiveAfterRegrow ==
    op \in {"regrowGrass", "update"} =>
        \A i \in 1..Len(cutAreas) : now - cutAreas[i].cutTime < REGROWTH_TIME

C4_Witness ==
    /\ op \in {"regrowGrass", "update"}
    /\ cuts = 2
    /\ Len(cutAreas) = 1
    /\ now - cutAreas[1].cutTime > 0

\* C5: regrowGrass removes exactly the events with
\* now - cutTime >= REGROWTH_TIME and keeps every other event in its original
\* relative order; when every event has expired the ledger is empty afterwards.
C5_PruneExactlyExpired ==
    [][PruneStep =>
        LET live == {i \in 1..Len(cutAreas) :
                        now' - cutAreas[i].cutTime < REGROWTH_TIME}
            nth(j) == CHOOSE i \in live : Cardinality({k \in live : k <= i}) = j
        IN  /\ Len(cutAreas') = Cardinality(live)
            /\ \A j \in 1..Len(cutAreas') : cutAreas'[j] = cutAreas[nth(j)]
            /\ (live = {} => cutAreas' = <<>>)]_vars

C5_Witness ==
    /\ op = "regrowGrass"
    /\ pruned
    /\ cuts >= 2
    /\ cutAreas = <<>>

\* C6: checkAndCutGrass at a position outside the field's rectangle
\* (|x| > width/2 or |z| > length/2) returns false and leaves the ledger, the
\* transport buffer and the active count unchanged; at a position inside the
\* rectangle or on its edge it returns true and the cut is recorded.
C6_OutOfFieldIsNoOp ==
    [][op' = "checkAndCutGrass" =>
        IF 2 * Abs(req'.x) > width \/ 2 * Abs(req'.z) > length
        THEN ret' = FALSE /\ TransportUnchanged /\ cuts' = cuts
        ELSE /\ ret' = TRUE
             /\ cuts' = cuts + 1
             /\ cutAreas'[Len(cutAreas')] = RequestedEvent
             /\ uCutAreasCount' = Len(cutAreas')]_vars

C6_Witness ==
    /\ op = "checkAndCutGrass"
    /\ ret = FALSE
    /\ Len(cutAreas) > 0
    /\ uCutAreasCount = Len(cutAreas)

\* C7: a cut request with radius <= 0 is a no-op: the ledger, the transport
\* buffer and the active count are unchanged after checkAndCutGrass or
\* cutGrass is called with radius 0 or a negative radius.
C7_Original ==
    [][((op' \in {"checkAndCutGrass", "cutGrass"}) /\ req'.radius <= 0) =>
        TransportUnchanged]_vars

\* the vertex lies strictly inside the disc of buffer record 0, the only one
EvalInside ==
    /\ uCutAreasCount = 1
    /\ uCutAreas[3] > 0
    /\ (position[1] - uCutAreas[0]) * (position[1] - uCutAreas[0])
         + (position[2] - uCutAreas[2]) * (position[2] - uCutAreas[2])
       < uCutAreas[3] * uCutAreas[3]
EvalAge == uCurrentTime - uCutAreas[4]
StagedAt(t, n, d) == uCurrentTime = t => IsFrac(vGrowthStage["staged"], n, d)

C9_Original ==
    (op = "main" /\ EvalInside /\ EvalAge >= 0) =>
        \A m \in Modes :
            /\ (EvalAge = 0 => IsZero(vGrowthStage[m]))
            /\ (IsOne(vGrowthStage[m]) <=> EvalAge >= REGROWTH_TIME)

\* the point p is strictly inside no disc of the ledger
OutsideEveryCut(p) ==
    \A i \in 1..Len(cutAreas) :
        LET dx == p[1] - cutAreas[i].position.x
            dz == p[2] - cutAreas[i].position.z
            r == cutAreas[i].radius
        IN  r <= 0 \/ dx * dx + dz * dz >= r * r
QueryPositions == {<<0, 0>>, <<1, 0>>, <<0, 2>>, <<49, 60>>, <<50, 60>>, <<-50, -61>>}
ShaderStage(m, p) ==
    getGrowthStage(m, p, uCutAreas, uCutAreasCount, Float32Time(uCurrentTime))

\* C10: for every position, ledger and time, a position that lies strictly
\* inside no ledger event's disc has growth stage exactly 1.0.
C10_OutsideEveryCutIsGrown ==
    \A p \in QueryPositions :
        OutsideEveryCut(p) => \A m \in Modes : IsOne(ShaderStage(m, p))

C10_Witness ==
    /\ Len(cutAreas) = 2
    /\ \E p \in QueryPositions : OutsideEveryCut(p)
    /\ \E p \in QueryPositions : \A m \in Modes : ~IsOne(ShaderStage(m, p))

\* buffer record i is active and the vertex lies strictly inside its disc
Covers(i) ==
    /\ i < uCutAreasCount
    /\ uCutAreas[i * CUT_AREA_STRIDE + 3] > 0
    /\ (position[1] - uCutAreas[i * CUT_AREA_STRIDE])
         * (position[1] - uCutAreas[i * CUT_AREA_STRIDE])
       + (position[2] - uCutAreas[i * CUT_AREA_STRIDE + 2])
         * (position[2] - uCutAreas[i * CUT_AREA_STRIDE + 2])
       < uCutAreas[i * CUT_AREA_STRIDE + 3] * uCutAreas[i * CUT_AREA_STRIDE + 3]
AgeOf(i) == uCurrentTime - uCutAreas[i * CUT_AREA_STRIDE + 4]
ActiveRecords == 0..(uCutAreasCount - 1)
\* a <= b and a = b for fractions
LeQ(a, b) == a[1] * b[2] <= b[1] * a[2]
EqQ(a, b) == a[1] * b[2] = b[1] * a[2]

\* C11: a position strictly inside exactly one active cut whose age is 0
\* (uCurrentTime = cutTime) has growth stage 0.0 in continuous mode and the
\* lowest stage value, 0, in staged mode.
C11_FreshCutIsZero ==
    op = "main" =>
        \A i \in ActiveRecords :
            (/\ Covers(i)
             /\ \A j \in ActiveRecords \ {i} : ~Covers(j)
             /\ AgeOf(i) = 0)
            => \A m \in Modes : IsZero(vGrowthStage[m])

C11_Witness ==
    /\ op = "main"
    /\ uCutAreasCount = 2
    /\ Covers(1)
    /\ ~Covers(0)
    /\ AgeOf(1) = 0
    /\ AgeOf(0) > 0
    /\ \A m \in Modes : IsZero(vGrowthStage[m])

\* the buffer with records 0 and 1 exchanged
SwapRecords(data) ==
    [k \in 0..(BufferLen - 1) |->
        IF k < CUT_AREA_STRIDE THEN data[k + CUT_AREA_STRIDE]
        ELSE IF k < 2 * CUT_AREA_STRIDE THEN data[k - CUT_AREA_STRIDE]
        ELSE data[k]]

\* C12: when two cuts cover the same point the growth stage is the minimum of
\* the two per-cut progress values, whatever their order in the buffer; with
\* progress 0.3 and 0.7 (ages 3000 and 7000 ms, continuous mode) it is 0.3.
C12_MinimumWins ==
    (op = "main" /\ uCutAreasCount = 2 /\ Covers(0) /\ Covers(1)) =>
        /\ \A m \in Modes :
              LET p0 == growthProgress(m, AgeOf(0))
                  p1 == growthProgress(m, AgeOf(1))
                  g == vGrowthStage[m]
              IN  /\ EqQ(g, p0) \/ EqQ(g, p1)
                  /\ LeQ(g, p0)
                  /\ LeQ(g, p1)
                  /\ EqQ(g, getGrowthStage(m, position, SwapRecords(uCutAreas),
                                           uCutAreasCount, uCurrentTime))
        /\ ({AgeOf(0), AgeOf(1)} = {3000, 7000}
              => IsFrac(vGrowthStage["continuous"], 3, 10))

C12_Witness ==
    /\ op = "main"
    /\ uCutAreasCount = 2
    /\ Covers(0)
    /\ Covers(1)
    /\ AgeOf(0) = 7000
    /\ AgeOf(1) = 3000
    /\ IsFrac(vGrowthStage["continuous"], 3, 10)

\* C13: for a fixed buffer and a fixed position the growth stage does not
\* decrease when the current time grows, in continuous and in staged mode.
C13_MonotoneInTime ==
    [][(/\ op = "main"
        /\ op' = "main"
        /\ position' = position
        /\ uCutAreas' = uCutAreas
        /\ uCutAreasCount' = uCutAreasCount
        /\ uCurrentTime' >= uCurrentTime)
       => \A m \in Modes : LeQ(vGrowthStage[m], vGrowthStage'[m])]_vars

C13_Witness ==
    /\ op = "main"
    /\ uCutAreasCount = 2
    /\ Covers(0)
    /\ Covers(1)
    /\ AgeOf(0) > 0
    /\ AgeOf(1) > 0
    /\ IsFrac(vGrowthStage["staged"], 2, 4)
    /\ ~IsZero(vGrowthStage["continuous"])
    /\ ~IsOne(vGrowthStage["continuous"])

StageCounts == 2..(GROWTH_STAGES + 1)
\* q is one of 0, 1/(k-1), ..., 1
Quantized(q, k) == \E j \in 0..(k - 1) : IsFrac(q, j, k - 1)

\* C14: the growth stage is always in [0, 1], also when the current time is
\* before the cut time; in staged mode with K stages (K >= 2) it is one of
\* 0, 1/(K-1), ..., 1, for K = 5 one of 0, 0.25, 0.5, 0.75, 1.
C14_StageInRange ==
    op = "main" =>
        /\ \A m \in Modes : LeQ(Zero, vGrowthStage[m]) /\ LeQ(vGrowthStage[m], One)
        /\ Quantized(vGrowthStage["staged"], GROWTH_STAGES)
        /\ \A i \in ActiveRecords, k \in StageCounts :
              LET g == growthProgressStaged(AgeOf(i), REGROWTH_TIME, k)
              IN  LeQ(Zero, g) /\ LeQ(g, One) /\ Quantized(g, k)

C14_Witness ==
    /\ op = "main"
    /\ uCutAreasCount = 2
    /\ Covers(0)
    /\ Covers(1)
    /\ AgeOf(0) < 0
    /\ AgeOf(1) > 0
    /\ \A m \in Modes : IsZero(vGrowthStage[m])

\* the ledger as regrowGrass would leave it at time t, and its transport
PrunedAt(t) == regrowFilter(cutAreas, t)
LaterTimes == {now, now + TickStep, now + 2 * TickStep}
\* the handler that ran last has rewritten the transport buffer
Resynced ==
    \/ op \in {"cutGrass", "regrowGrass", "update"}
    \/ op = "checkAndCutGrass" /\ ret = TRUE

\* C15: an expired event (age >= REGROWTH_TIME) still in the ledger and the
\* buffer is inert: for every position and time the growth stage computed from
\* the buffer as it is equals the one computed after regrowGrass has removed
\* the expired events.
C15_Original ==
    \A t \in LaterTimes, p \in QueryPositions, m \in Modes :
        EqQ(getGrowthStage(m, p, uCutAreas, uCutAreasCount, Float32Time(t)),
            getGrowthStage(m, p, updateCutAreasUniform(PrunedAt(t), uCutAreas),
                           Len(PrunedAt(t)), Float32Time(t)))

\* C16: after every cutGrass and every update / regrowGrass the active count
\* equals the ledger length, record i of the buffer holds (x, 0, z, radius,
\* cutTime) of the i-th ledger event, and the buffer has MAX_CUT_AREAS * 8 =
\* 160 slots.
C16_Original ==
    Resynced =>
        /\ uCutAreasCount = Len(cutAreas)
        /\ DOMAIN uCutAreas = 0..(MAX_CUT_AREAS * 8 - 1)
        /\ \A i \in 1..Len(cutAreas) :
              /\ uCutAreas[8 * (i - 1)] = cutAreas[i].position.x
              /\ uCutAreas[8 * (i - 1) + 1] = 0
              /\ uCutAreas[8 * (i - 1) + 2] = cutAreas[i].position.z
              /\ uCutAreas[8 * (i - 1) + 3] = cutAreas[i].radius
              /\ uCutAreas[8 * (i - 1) + 4] = cutAreas[i].cutTime

\* C17: after every resync of the buffer every slot at index >= 8 * active
\* count is zero, and so are the 3 padding slots of every used record.
C17_Original ==
    Resynced =>
        \A k \in DOMAIN uCutAreas :
            (k >= 8 * uCutAreasCount \/ k % 8 >= 5) => uCutAreas[k] = 0

\* C18: at every draw the active count counts only live events: each of the
\* first uCutAreasCount buffer records has uCurrentTime - cutTime <
\* REGROWTH_TIME, for the uCurrentTime value the shader gets in that frame.
C18_Original ==
    op = "frame" =>
        \A i \in ActiveRecords :
            Float32Time(uCurrentTime) - uCutAreas[i * CUT_AREA_STRIDE + 4]
                < REGROWTH_TIME

C20_PolygonLoopBounded ==
    /\ [](/\ draws <= 2 * ctorCount
          /\ actualCount >= 0
          /\ actualCount <= ctorCount
          /\ actualCount <= draws
          /\ (op = "geometry" => (draws = 2 * ctorCount \/ actualCount = ctorCount)))
    /\ <>(op = "geometry")

C20_Witness ==
    /\ op = "geometry"
    /\ ctorCount >= 3
    /\ draws = 2 * ctorCount
    /\ actualCount > 0
    /\ actualCount < ctorCount

\* blade k (from 0) of the geometry: its 5 vertices are entries 5k..5k+4 of
\* positions, its 9 indices are entries 9k..9k+8 of indices
BladeVertices(k) == {5 * k + c : c \in 0..4}
BladeIndices(k) == {indices[9 * k + j] : j \in 1..9}
Blades == Len(bladePositions)

\* C21: in the field built by createIrregularGarden every blade position of
\* the resulting grass geometry passes the even-odd point-in-polygon test
\* against the boundary point list.
C21_Original ==
    op = "garden" =>
        \A k \in 1..Len(bladePositions) :
            isPointInPolygon(bladePositions[k][1], bladePositions[k][2],
                             boundaryPoints)

IsSuffixOf(b, a) ==
    /\ Len(b) <= Len(a)
    /\ \A i \in 1..Len(b) : b[i] = a[Len(a) - Len(b) + i]

\* C23: within a frame of the mowing loop the move comes first, then the cut
\* recording if triggered, then the pruning, then the resync of the buffer
\* and the time uniforms, then the draw: a cut recorded in a frame lies at
\* the place the mower has after that frame's move, is the last event of the
\* pruned ledger, is in the buffer and counted, and the draw of that frame
\* runs on the buffer, the count and the time that the frame has written.
C23_FrameOrder ==
    [][op' = "frame" =>
        LET n == Len(cutAreas') IN
        /\ cuts' = cuts + 1 =>
              /\ n >= 1
              /\ cutAreas'[n].position =
                    [x |-> collisionBox'[1], y |-> 0, z |-> collisionBox'[2]]
              /\ cutAreas'[n].cutTime = lastCutTime'
              /\ IsSuffixOf(SubSeq(cutAreas', 1, n - 1), cutAreas)
              /\ uCutAreas'[CUT_AREA_STRIDE * (n - 1)] = collisionBox'[1]
              /\ uCutAreas'[CUT_AREA_STRIDE * (n - 1) + 2] = collisionBox'[2]
              /\ uCutAreas'[CUT_AREA_STRIDE * (n - 1) + 3] = cutAreas'[n].radius
        /\ cuts' = cuts => IsSuffixOf(cutAreas', cutAreas)
        /\ uCutAreasCount' = n
        /\ \A i \in 1..n :
              /\ uCurrentTime' >= cutAreas'[i].cutTime
              /\ uCutAreas'[CUT_AREA_STRIDE * (i - 1)] = cutAreas'[i].position.x
              /\ uCutAreas'[CUT_AREA_STRIDE * (i - 1) + 2] = cutAreas'[i].position.z
        /\ uCurrentTime' = now'
        /\ \A m \in Modes :
              vGrowthStage'[m] =
                  getGrowthStage(m, position', uCutAreas', uCutAreasCount',
                                 Float32Time(uCurrentTime'))]_vars

\* a frame that moved the mower, recorded a cut and pruned an older one
C23_Witness ==
    /\ op = "frame"
    /\ frames = 3
    /\ cuts = 3
    /\ pruned
    /\ collisionBox = <<0, 3>>
    /\ Len(cutAreas) = 2
    /\ cutAreas[2].position.z = 3
    /\ cutAreas[2].cutTime = lastCutTime
    /\ uCutAreasCount = 2
    /\ uCutAreas[CUT_AREA_STRIDE + 2] = 3

\* C25: no cut is recorded in a frame in which the mower is OFF: while
\* mowerDown is false the ledger can only lose events to pruning, whatever
\* movement keys are held; mowerDown starts false and changes only on a 'c'
\* keydown, and the indicator text always matches it.
C25_MowerOffNoCut ==
    /\ [](/\ op = "init" => ~mowerDown
          /\ mowerDown => mowerIndicator = "Mower: ON"
          /\ ~mowerDown => mowerIndicator = "Mower: OFF")
    /\ [][/\ (op' = "frame" /\ ~mowerDown) =>
                /\ cuts' = cuts
                /\ lastCutTime' = lastCutTime
                /\ IsSuffixOf(cutAreas', cutAreas)
          /\ mowerDown' # mowerDown => (op' = "keydown" /\ "c" \in keys')
          /\ op' # "keydown" => mowerDown' = mowerDown]_vars

\* the mower was switched off after a cut; a frame ran with the forward key
\* held and long after the last cut, and recorded nothing
C25_Witness ==
    /\ op = "frame"
    /\ ~mowerDown
    /\ mowerIndicator = "Mower: OFF"
    /\ "w" \in keys
    /\ cuts = 1
    /\ Len(cutAreas) = 1
    /\ now - lastCutTime > CUT_INTERVAL
    /\ collisionBox[2] >= 2

\* the iterations of the loop of getGrowthStage that get past the break, and
\* the timestamp slots they read
LoopIterations(m, count) ==
    {i \in 0..(LoopLimit(m) - 1) : ~(i >= count)}
LoopReads(m, count) == {8 * i + 4 : i \in LoopIterations(m, count)}

\* C24: the evaluator loop runs at most C = 20 iterations and reads only
\* slots inside the transport buffer: for every reachable active count every
\* index 8 * i + 4 it reads is below 160, the Float32Array length, and below
\* the array size declared in the shader, and the declared array size and the
\* loop cap equal the capacity of the JS side (20 records, 160 floats).
C24_Original ==
    \A m \in Modes :
        /\ Cardinality(LoopIterations(m, uCutAreasCount)) <= MAX_CUT_AREAS
        /\ \A k \in LoopReads(m, uCutAreasCount) :
              /\ k \in DOMAIN uCutAreas
              /\ k < MAX_CUT_AREAS * 8
              /\ k < ArraySize(m)
        /\ ArraySize(m) = MAX_CUT_AREAS * 8
        /\ LoopLimit(m) = MAX_CUT_AREAS

\* what does hold: the reads stay inside both arrays because the active
\* count never exceeds the capacity
C24_ReadsInsideBuffer ==
    \A m \in Modes :
        /\ Cardinality(LoopIterations(m, uCutAreasCount)) <= MAX_CUT_AREAS
        /\ \A k \in LoopReads(m, uCutAreasCount) :
              k \in DOMAIN uCutAreas /\ k < ArraySize(m)

EventsOf(areas) == {areas[i] : i \in 1..Len(areas)}

\* C26: with a clock that never goes back, after any sequence of cutGrass
\* and regrowGrass calls the ledger is ordered by non-decreasing cutTime
\* (insertion order is time order), so the event that an eviction removes has
\* the smallest cutTime of the ledger and the events that a pruning removes
\* are its first events.
C26_LedgerTimeOrdered ==
    /\ [](\A i \in 1..(Len(cutAreas) - 1) :
             cutAreas[i].cutTime <= cutAreas[i + 1].cutTime)
    /\ [][/\ CutStep =>
                /\ Len(cutAreas) < MAX_CUT_AREAS
                      => EventsOf(cutAreas) \subseteq EventsOf(cutAreas')
                /\ \A i \in 1..Len(cutAreas) :
                      cutAreas[i] \notin EventsOf(cutAreas') =>
                          \A j \in 1..Len(cutAreas) :
                              cutAreas[i].cutTime <= cutAreas[j].cutTime
          /\ PruneStep => IsSuffixOf(cutAreas', cutAreas)]_vars

\* the sweep has evicted, idled, cut again, and a pruning has then removed
\* the 19 first events of the full ledger
C26_Witness ==
    /\ op = "regrowGrass"
    /\ pruned
    /\ cuts = MAX_CUT_AREAS + 2
    /\ Len(cutAreas) = 1
    /\ cutAreas[1].position.x = Lane(MAX_CUT_AREAS + 1)[1]

\* C27: with MAX_CUT_AREAS = 20, REGROWTH_TIME = 10000 and CUT_INTERVAL = 100
\* a recorded cut stays in the ledger until its age reaches the regrowth
\* time: an event leaves the ledger only when now - cutTime >= REGROWTH_TIME,
\* never by eviction while it is still live.
C27_Original ==
    [][\A i \in 1..Len(cutAreas) :
          cutAreas[i] \notin EventsOf(cutAreas') =>
              now' - cutAreas[i].cutTime >= REGROWTH_TIME]_vars

\* C28: the cut time read from the transport buffer equals the cutTime of the
\* ledger event: a Date.now() value stored in a 32-bit float slot and read
\* back is unchanged, so the age the shader computes, uCurrentTime minus the
\* buffered cut time, equals now - cutTime of the ledger event.
C28_Original ==
    op = "update" =>
        \A i \in 1..Len(cutAreas) :
            LET cutTime == uCutAreas[CUT_AREA_STRIDE * (i - 1) + 4]
                timeSinceCut == Float32(Float32Time(uCurrentTime) - cutTime)
            IN  /\ cutTime = cutAreas[i].cutTime
                /\ timeSinceCut = now - cutAreas[i].cutTime

\* C29: in the tile-streaming loop, at the end of every frame the active
\* grass tiles are exactly t-1, t, t+1, t+2, t+3 with
\* t = floor(player.z / TILE_LENGTH) = currentTileZ: a tile that leaves the
\* window is removed from the Map and the scene in the frame in which the
\* player changes tile, no tile has two Grass objects, and at most 5 exist.
C29_ActiveTileWindow ==
    op = "frame" =>
        LET t == controllableObject.z \div TILE_LENGTH IN
        /\ currentTileZ = t
        /\ grassTiles = {t - 1, t, t + 1, t + 2, t + 3}
        /\ Cardinality(grassTiles) <= 5
        /\ Len(sceneGrass) = Cardinality(grassTiles)
        /\ {sceneGrass[i] : i \in 1..Len(sceneGrass)} = grassTiles

\* the player has walked from tile -1 into tile -2: tile 2 is gone, tile -3
\* was created last
C29_Witness ==
    /\ op = "frame"
    /\ controllableObject.z < -TILE_LENGTH
    /\ currentTileZ = -2
    /\ grassTiles = {-3, -2, -1, 0, 1}
    /\ sceneGrass[Len(sceneGrass)] = -3

\* C30: in the corridor variant a jump started by a space keydown on the
\* ground ends after finitely many frames with the player on the ground,
\* y = 0.5, velocityY = 0 and isJumping = false; a space keydown while
\* airborne does not change velocityY, and y is never below 0.5 at the end of
\* a frame.
C30_JumpLands ==
    /\ [](controllableObject.y >= GROUND_Y)
    /\ [][(op' = "keydown" /\ isJumping) =>
             (velocityY' = velocityY /\ isJumping')]_vars
    /\ [][(isJumping /\ ~isJumping') =>
             (/\ op' = "frame"
              /\ controllableObject'.y = GROUND_Y
              /\ velocityY' = 0)]_vars
    /\ (isJumping ~> (/\ ~isJumping
                      /\ controllableObject.y = GROUND_Y
                      /\ velocityY = 0))

\* a jump has ended: the player is back on the ground and may jump again
C30_Witness ==
    /\ op = "frame"
    /\ landed
    /\ ~isJumping
    /\ controllableObject.y = GROUND_Y
    /\ velocityY = 0

====
